---- MODULE Spec2Model ----
(***************************************************************************)
(* A model of buildscripts/monitor_build_status/cli.py: one run of         *)
(* MonitorBuildStatusOrchestrator.evaluate_build_redness.                  *)
(*                                                                         *)
(* The run is sequential.  Its steps are delimited by the calls it makes   *)
(* to the outside (Evergreen, Jira, Slack): every such call either returns *)
(* or raises, and nothing in cli.py catches an exception, so a raise ends  *)
(* the run.  Everything the code does between two calls belongs to the     *)
(* action of the call that returned.                                       *)
(*                                                                         *)
(* Numbers.  A percentage is bf_count / threshold * 100 in Python floats;  *)
(* it is kept here as the exact fraction num/den (num = 100 * bf_count,    *)
(* den = threshold) and compared by cross-multiplication.  Time is counted *)
(* in whole hours since an epoch; a day is HOURS_PER_DAY hours.            *)
(***************************************************************************)
EXTENDS Integers, Sequences, FiniteSets, TLC

(***************************************************************************)
(* Program constants (cli.py:36-46).                                       *)
(***************************************************************************)
DEFAULT_REPO == "10gen/mongo"
DEFAULT_BRANCH == "master"
SLACK_CHANNEL == "#10gen-mongo-code-lockdown"
EVERGREEN_LOOKBACK_DAYS == 14
OVERALL_HOT_BF_COUNT_THRESHOLD == 30
OVERALL_COLD_BF_COUNT_THRESHOLD == 100
OVERALL_PERF_BF_COUNT_THRESHOLD == 30
PER_TEAM_HOT_BF_COUNT_THRESHOLD == 7
PER_TEAM_COLD_BF_COUNT_THRESHOLD == 20
PER_TEAM_PERF_BF_COUNT_THRESHOLD == 10
\* timedelta(days=1), in the model's unit of time
HOURS_PER_DAY == 24

(***************************************************************************)
(* Bounds of the model.                                                    *)
(***************************************************************************)
\* longest list of tickets drawn freely from TicketKinds
MaxBfs == 3
\* largest number of same-category tickets in a bulk ticket list
MaxBulk == 31
\* longest list of builds drawn freely from BuildKinds
MaxBuilds == 2

(***************************************************************************)
(* Enumerations of jira_service (TestType, BfTemperature) and the values   *)
(* the model uses for a missing team and for "no team filter".             *)
(***************************************************************************)
CORRECTNESS == "correctness"
PERFORMANCE == "performance"
HOT == "hot"
COLD == "cold"
NONE == "none"
\* the ticket names no team
NO_TEAM == "<absent>"
\* the bucket such a ticket is recorded under
UNASSIGNED == "unassigned"
\* get_bf_count(..., assigned_team=None)
ANY_TEAM == "<any>"

TestTypes == {CORRECTNESS, PERFORMANCE}
BfTemperatures == {HOT, COLD, NONE}

(***************************************************************************)
(* Fractions.                                                              *)
(***************************************************************************)
Gt(p, k) == p.num > k * p.den
Lt(p, k) == p.num < k * p.den
Leq(p, q) == p.num * q.den <= q.num * p.den

(***************************************************************************)
(* BFsReport (bfs_report.py).  The report holds the classified tickets it  *)
(* counted and the set of teams seen.                                      *)
(***************************************************************************)
BFsReport_empty == [bfs |-> << >>, all_assigned_teams |-> {}]

\* A ticket none of whose Evergreen projects is active is not counted; a
\* ticket without a team goes to the "unassigned" bucket.
add_bf_data(report, bf, evg_projects_info) ==
  IF bf.evergreen_projects \cap evg_projects_info.active_project_names = {}
  THEN report
  ELSE LET team == IF bf.assigned_team = NO_TEAM THEN UNASSIGNED ELSE bf.assigned_team
       IN [bfs |-> Append(report.bfs,
                          [assigned_team |-> team,
                           test_type |-> bf.test_type,
                           temperature |-> bf.temperature]),
           all_assigned_teams |-> report.all_assigned_teams \cup {team}]

get_bf_count(report, test_types, bf_temperatures, assigned_team) ==
  Len(SelectSeq(report.bfs,
                LAMBDA bf : /\ bf.test_type \in test_types
                            /\ bf.temperature \in bf_temperatures
                            /\ \/ assigned_team = ANY_TEAM
                               \/ bf.assigned_team = assigned_team))

\* the test type x temperature cross-tab that as_str_table renders
as_str_table(report) ==
  [tt \in TestTypes |-> [tmp \in BfTemperatures |->
      get_bf_count(report, {tt}, {tmp}, ANY_TEAM)]]

(***************************************************************************)
(* JiraService.fetch_bfs: the tickets matching the query, in Jira's order. *)
(* jira_issues are the tickets that satisfy ACTIVE_BFS_QUERY; the query    *)
(* adds the restriction to the active Evergreen projects.                  *)
(***************************************************************************)
make_bfs_query(evg_projects_info) ==
  [active_bfs |-> TRUE, evergreen_project_in |-> evg_projects_info.active_project_names]

fetch_bfs(issues, query) ==
  SelectSeq(issues, LAMBDA bf : bf.evergreen_projects \cap query.evergreen_project_in # {})

RECURSIVE add_all_bf_data(_, _, _)
add_all_bf_data(report, active_bfs, evg_projects_info) ==
  IF active_bfs = << >> THEN report
  ELSE add_all_bf_data(add_bf_data(report, Head(active_bfs), evg_projects_info),
                       Tail(active_bfs), evg_projects_info)

\* _make_bfs_report, given what fetch_bfs returned
_make_bfs_report(active_bfs, evg_projects_info) ==
  add_all_bf_data(BFsReport_empty, active_bfs, evg_projects_info)

(***************************************************************************)
(* _get_bf_counts_status                                                   *)
(***************************************************************************)
\* variant: the factor 100 left out
percentage_as_ratio(bf_count, threshold) == [num |-> bf_count, den |-> threshold]
\* percentage = bf_count / threshold * 100
percentage(bf_count, threshold) == [num |-> bf_count * 100, den |-> threshold]

_make_status_msg(scope_, bf_type, bf_count, threshold) ==
  [tag |-> "BF", scope |-> scope_, bf_type |-> bf_type, bf_count |-> bf_count,
   percentage |-> percentage(bf_count, threshold), threshold |-> threshold]

overall_hot_bf_count(report) == get_bf_count(report, {CORRECTNESS}, {HOT}, ANY_TEAM)
\* variant: NONE left out of the Cold filter
overall_cold_only_bf_count(report) == get_bf_count(report, {CORRECTNESS}, {COLD}, ANY_TEAM)
overall_cold_bf_count(report) == get_bf_count(report, {CORRECTNESS}, {COLD, NONE}, ANY_TEAM)
overall_perf_bf_count(report) ==
  get_bf_count(report, {PERFORMANCE}, {HOT, COLD, NONE}, ANY_TEAM)

per_team_hot_bf_count(report, team) == get_bf_count(report, {CORRECTNESS}, {HOT}, team)
per_team_cold_bf_count(report, team) ==
  get_bf_count(report, {CORRECTNESS}, {COLD, NONE}, team)
per_team_perf_bf_count(report, team) ==
  get_bf_count(report, {PERFORMANCE}, {HOT, COLD, NONE}, team)

\* variant: the counts of the teams added up
keep_sum(count, max_so_far) == count + max_so_far
\* if count > max: max = count
keep_max(count, max_so_far) == IF count > max_so_far THEN count ELSE max_so_far

\* the loop over bfs_report.all_assigned_teams; a set, so in any order
RECURSIVE max_per_team(_, _, _)
max_per_team(report, teams, maxima) ==
  IF teams = {} THEN maxima
  ELSE LET team == CHOOSE t \in teams : TRUE
       IN max_per_team(report, teams \ {team},
            [hot |-> keep_max(per_team_hot_bf_count(report, team), maxima.hot),
             cold |-> keep_max(per_team_cold_bf_count(report, team), maxima.cold),
             perf |-> keep_max(per_team_perf_bf_count(report, team), maxima.perf)])

\* the six status lines, in the order the code appends their percentages
bf_count_lines(report) ==
  LET maxima == max_per_team(report, report.all_assigned_teams,
                             [hot |-> 0, cold |-> 0, perf |-> 0])
  IN << _make_status_msg("Overall", "Hot", overall_hot_bf_count(report),
                         OVERALL_HOT_BF_COUNT_THRESHOLD),
        _make_status_msg("Overall", "Cold", overall_cold_bf_count(report),
                         OVERALL_COLD_BF_COUNT_THRESHOLD),
        _make_status_msg("Overall", "Perf", overall_perf_bf_count(report),
                         OVERALL_PERF_BF_COUNT_THRESHOLD),
        _make_status_msg("Max per Assigned Team", "Hot", maxima.hot,
                         PER_TEAM_HOT_BF_COUNT_THRESHOLD),
        _make_status_msg("Max per Assigned Team", "Cold", maxima.cold,
                         PER_TEAM_COLD_BF_COUNT_THRESHOLD),
        _make_status_msg("Max per Assigned Team", "Perf", maxima.perf,
                         PER_TEAM_PERF_BF_COUNT_THRESHOLD) >>

\* returns the message (a list of lines) and the list of percentages
_get_bf_counts_status(report) ==
  LET lines == bf_count_lines(report)
  IN [status_message |->
        << [tag |-> "STATUS", what |-> "The current BF count"],
           [tag |-> "FENCE"],
           [tag |-> "TABLE", table |-> as_str_table(report)],
           [tag |-> "FENCE"] >> \o lines,
      percentages |-> [i \in 1..Len(lines) |-> lines[i].percentage]]

(***************************************************************************)
(* TaskStatusCounts and EvergreenService.get_waterfall_status              *)
(* (evergreen_service.py).  evg_builds is what Evergreen knows: one record *)
(* per build, with its project, the hour it started and its task counts.   *)
(***************************************************************************)
TaskStatusCounts(project) == [project |-> project, succeeded |-> 0, failed |-> 0]

TaskStatusCounts_add(self, other) ==
  [project |-> self.project,
   succeeded |-> self.succeeded + other.succeeded,
   failed |-> self.failed + other.failed]

\* the builds of the named projects that started in [window_start, window_end)
get_waterfall_status(builds, evg_project_names, window_start, window_end) ==
  LET inside == SelectSeq(builds, LAMBDA b :
                  /\ \E i \in 1..Len(evg_project_names) : evg_project_names[i] = b.project
                  /\ window_start <= b.time
                  /\ b.time < window_end)
  IN [i \in 1..Len(inside) |->
        [project |-> inside[i].project,
         succeeded |-> inside[i].succeeded,
         failed |-> inside[i].failed]]

(***************************************************************************)
(* _accumulate_project_statuses                                            *)
(***************************************************************************)
\* variant: the project of a build not compared
of_any_project(build_status, evg_project_name) == TRUE
\* if build_status.project == evg_project_name
of_project(build_status, evg_project_name) == build_status.project = evg_project_name

RECURSIVE add_build_statuses(_, _)
add_build_statuses(project_status, build_statuses) ==
  IF build_statuses = << >> THEN project_status
  ELSE add_build_statuses(
         IF of_project(Head(build_statuses), project_status.project)
         THEN TaskStatusCounts_add(project_status, Head(build_statuses))
         ELSE project_status,
         Tail(build_statuses))

\* variant: a tally only for the projects that have builds
_accumulate_built_projects(evg_project_names, build_statuses) ==
  LET built == SelectSeq(evg_project_names, LAMBDA n :
                 \E i \in 1..Len(build_statuses) : build_statuses[i].project = n)
  IN [i \in 1..Len(built) |-> add_build_statuses(TaskStatusCounts(built[i]), build_statuses)]
\* one tally per project name, whether or not the project has builds
_accumulate_project_statuses(evg_project_names, build_statuses) ==
  [i \in 1..Len(evg_project_names) |->
     add_build_statuses(TaskStatusCounts(evg_project_names[i]), build_statuses)]

(***************************************************************************)
(* _make_waterfall_report: the windows of the loop, and the report built   *)
(* after it.  The dict (insertion-ordered, keyed by project name) is the   *)
(* list of its items; the project names of a branch are distinct.          *)
(***************************************************************************)
day_window_end(window_end, day) == window_end - HOURS_PER_DAY * day
day_window_start(window_end, day) == day_window_end(window_end, day) - HOURS_PER_DAY

group_by_project(evg_project_names, task_status_counts) ==
  [i \in 1..Len(evg_project_names) |->
     [project |-> evg_project_names[i],
      daily |-> SelectSeq(task_status_counts,
                          LAMBDA c : c.project = evg_project_names[i])]]

(***************************************************************************)
(* _get_waterfall_redness_status                                           *)
(***************************************************************************)
RECURSIVE insert_sorted(_, _)
insert_sorted(x, s) ==
  IF s = << >> THEN << x >>
  ELSE IF x <= Head(s) THEN << x >> \o s
  ELSE << Head(s) >> \o insert_sorted(x, Tail(s))

RECURSIVE sorted(_)
sorted(s) == IF s = << >> THEN << >> ELSE insert_sorted(Head(s), sorted(Tail(s)))

\* statistics.median of a non-empty list, as a fraction
median(data) ==
  LET s == sorted(data)
      n == Len(s)
  IN IF n % 2 = 1
     THEN [num |-> s[(n + 1) \div 2], den |-> 1]
     ELSE [num |-> s[n \div 2] + s[n \div 2 + 1], den |-> 2]

\* statistics.median raises StatisticsError on an empty list
median_raises(data) == data = << >>

\* f"{x:.0f}": to the nearest integer, ties to even
format_0f(x) ==
  LET q == x.num \div x.den
      r == x.num % x.den
  IN IF 2 * r < x.den THEN q
     ELSE IF 2 * r > x.den THEN q + 1
     ELSE IF q % 2 = 0 THEN q ELSE q + 1

\* "%Y-%m-%d": the day an hour falls in
strftime_date(t) == t \div HOURS_PER_DAY

daily_red_box_counts(item) == [i \in 1..Len(item.daily) |-> item.daily[i].failed]

\* the index of the first project whose median raises, 0 if none does
first_raising(waterfall_report) ==
  LET bad == {i \in 1..Len(waterfall_report) :
                median_raises(daily_red_box_counts(waterfall_report[i]))}
  IN IF bad = {} THEN 0 ELSE CHOOSE i \in bad : \A j \in bad : i <= j

\* the LOGGER.info of each iteration the loop begins
redness_logs(waterfall_report) ==
  LET stop == first_raising(waterfall_report)
      upto == IF stop = 0 THEN Len(waterfall_report) ELSE stop
  IN [i \in 1..upto |->
        [tag |-> "LOG", event |-> "Daily per project red box counts",
         project |-> waterfall_report[i].project,
         daily_red_box_counts |-> daily_red_box_counts(waterfall_report[i])]]

_get_waterfall_redness_status(waterfall_report, window_start, window_end) ==
  << [tag |-> "STATUS", what |-> "Evergreen waterfall red and purple boxes median count per day",
      from |-> strftime_date(window_start), to |-> strftime_date(window_end)] >>
  \o [i \in 1..Len(waterfall_report) |->
        [tag |-> "MEDIAN", project |-> waterfall_report[i].project,
         median |-> format_0f(median(daily_red_box_counts(waterfall_report[i])))]]

(***************************************************************************)
(* evaluate_build_redness: the pieces between the calls                    *)
(***************************************************************************)
BLANK == [tag |-> "BLANK"]

\* f"\n`[STATUS]` '{repo}' repo '{branch}' branch", split at "\n"
initial_status_message(repo_, branch_) ==
  << BLANK, [tag |-> "STATUS", what |-> "branch", repo |-> repo_, branch |-> branch_] >>

\* f"{status_message}\n{msg}\n", split at "\n"
with_section(message, msg) == message \o msg \o << BLANK >>

\* window_end: the start of the day before utcnow
window_end_of(now) == (now \div HOURS_PER_DAY) * HOURS_PER_DAY - HOURS_PER_DAY
window_start_of(now) == window_end_of(now) - HOURS_PER_DAY * EVERGREEN_LOOKBACK_DAYS

RED == "RED"
YELLOW == "YELLOW"
GREEN == "GREEN"

\* variant: the bounds 100 and 50 taken inclusive
verdict_inclusive(percentages) ==
  IF \E i \in 1..Len(percentages) : ~Lt(percentages[i], 100) THEN RED
  ELSE IF \A i \in 1..Len(percentages) : ~Gt(percentages[i], 50) THEN GREEN
  ELSE YELLOW
\* the if / elif / else over threshold_percentages
verdict_of(percentages) ==
  IF \E i \in 1..Len(percentages) : Gt(percentages[i], 100) THEN RED
  ELSE IF \A i \in 1..Len(percentages) : Lt(percentages[i], 50) THEN GREEN
  ELSE YELLOW

action_line(percentages) == [tag |-> "ACTION", verdict |-> verdict_of(percentages)]

\* variant: the medians taken as further percentages
with_waterfall_medians(bf_count_percentages, waterfall_lines) ==
  bf_count_percentages \o
  [i \in 1..Len(waterfall_lines) - 1 |-> [num |-> waterfall_lines[i + 1].median, den |-> 1]]
\* threshold_percentages: [] extended by the BF count percentages and by
\* nothing else; the waterfall message is not among its sources
extend_threshold_percentages(bf_count_percentages, waterfall_lines) == bf_count_percentages

RECURSIVE lstrip(_)
lstrip(message) ==
  IF message # << >> /\ Head(message) = BLANK THEN lstrip(Tail(message)) ELSE message

RECURSIVE rstrip(_)
rstrip(message) ==
  IF message # << >> /\ message[Len(message)] = BLANK
  THEN rstrip(SubSeq(message, 1, Len(message) - 1))
  ELSE message

\* status_message.strip()
strip(message) == rstrip(lstrip(message))

(***************************************************************************)
(* The state.  The arguments of the run and what the outside holds:        *)
(*   repo, branch, notify  the arguments of evaluate_build_redness         *)
(*   evg_projects          what get_evg_project_info has to return         *)
(*   jira_issues           the tickets satisfying ACTIVE_BFS_QUERY         *)
(*   evg_builds            the builds Evergreen knows                      *)
(*   utcnow                the clock, in hours                             *)
(* The run:                                                                *)
(*   pc                    the call the run is waiting in, or done/aborted *)
(*   error                 the exception that ended the run, "" for none   *)
(*   the locals of evaluate_build_redness and _make_waterfall_report       *)
(*   logged                the LOGGER.info records, in order               *)
(*   slack                 the messages Slack accepted                     *)
(*   calls                 the calls made to the outside and how each      *)
(*                         ended, in order                                 *)
(***************************************************************************)
VARIABLES repo, branch, notify, evg_projects, jira_issues, evg_builds, utcnow,
          pc, error, evg_projects_info, evg_project_names, bfs_report,
          threshold_percentages, status_message, window_start, window_end,
          day, task_status_counts, waterfall_report, logged, slack, calls

args == << repo, branch, notify >>
outside == << evg_projects, jira_issues, evg_builds, utcnow >>
locals == << evg_projects_info, evg_project_names, bfs_report, threshold_percentages,
             status_message, window_start, window_end, day, task_status_counts,
             waterfall_report >>
vars == << args, outside, pc, error, locals, logged, slack, calls >>

LOG(event) == [tag |-> "LOG", event |-> event]

\* the LOGGER.info that precedes each get_waterfall_status call
waterfall_query_log(names, w_end, d) ==
  [tag |-> "LOG", event |-> "Getting Evergreen waterfall data", projects |-> names,
   window_start |-> day_window_start(w_end, d), window_end |-> day_window_end(w_end, d)]

(***************************************************************************)
(* The inputs the model draws from.                                        *)
(***************************************************************************)
Ticket(team, test_type, temperature, projects) ==
  [assigned_team |-> team, test_type |-> test_type, temperature |-> temperature,
   evergreen_projects |-> projects]

TicketKinds ==
  << Ticket("A", CORRECTNESS, HOT, {"p1"}),
     Ticket("A", CORRECTNESS, COLD, {"p1"}),
     Ticket("A", CORRECTNESS, NONE, {"p1"}),
     Ticket("A", PERFORMANCE, HOT, {"p1"}),
     Ticket("A", PERFORMANCE, COLD, {"p1"}),
     Ticket("A", PERFORMANCE, NONE, {"p1"}),
     Ticket("B", CORRECTNESS, HOT, {"p2"}),
     Ticket("B", PERFORMANCE, COLD, {"p1", "p9"}),
     Ticket(NO_TEAM, CORRECTNESS, NONE, {"p1"}),
     Ticket("A", CORRECTNESS, HOT, {"p9"}) >>

\* ticket lists of up to MaxBfs tickets, one per multiset of kinds
SmallBfs ==
  UNION {
    { [i \in 1..n |-> TicketKinds[f[i]]] :
        f \in {g \in [1..n -> 1..Len(TicketKinds)] :
                 \A i \in 1..n - 1 : g[i] <= g[i + 1]} } :
    n \in 0..MaxBfs }

BulkTeams == << "A", "B", "C", "D", NO_TEAM >>

\* n tickets of one category, dealt to the first k teams in turn
BulkBfs ==
  { [i \in 1..n |-> Ticket(BulkTeams[(i % k) + 1], tt, tmp, {"p1"})] :
      n \in 0..MaxBulk, k \in {1, Len(BulkTeams)}, tt \in TestTypes, tmp \in BfTemperatures }

FewBfs ==
  { << >>,
    [i \in 1..8 |-> Ticket("A", CORRECTNESS, HOT, {"p1", "p3"})],
    [i \in 1..5 |-> Ticket("B", PERFORMANCE, COLD, {"p2", "p3"})],
    << Ticket("A", CORRECTNESS, HOT, {"p1", "p3"}),
       Ticket("B", CORRECTNESS, NONE, {"p1", "p3"}),
       Ticket(NO_TEAM, PERFORMANCE, HOT, {"p2", "p3"}),
       Ticket("B", CORRECTNESS, COLD, {"p1", "p3"}),
       Ticket("A", CORRECTNESS, HOT, {"p1", "p3"}),
       Ticket("B", CORRECTNESS, HOT, {"p1", "p3"}),
       Ticket(NO_TEAM, PERFORMANCE, NONE, {"p2", "p3"}),
       Ticket("A", CORRECTNESS, COLD, {"p1", "p3"}),
       Ticket("B", PERFORMANCE, COLD, {"p2", "p3"}),
       Ticket("B", CORRECTNESS, NONE, {"p1", "p3"}) >> }

EvgProjectsInfo(map, active) ==
  [branch_to_projects_map |-> map, active_project_names |-> active]

BaseProjects ==
  EvgProjectsInfo(("master" :> << "p1", "p2" >>) @@ ("v8.0" :> << "p3" >>),
                  {"p1", "p2", "p3"})

AllProjects ==
  { BaseProjects,
    EvgProjectsInfo("master" :> << "p1" >>, {"p1"}),
    EvgProjectsInfo(("master" :> << >>) @@ ("v8.0" :> << "p3" >>), {"p3"}),
    EvgProjectsInfo("v8.0" :> << "p3" >>, {"p3"}) }

\* day 16, 13:00; the 14-day window is then [hour 24, hour 360)
BaseNow == 16 * HOURS_PER_DAY + 13
Nows == {BaseNow, 16 * HOURS_PER_DAY, 17 * HOURS_PER_DAY - 1}

Build(project, time, succeeded, failed) ==
  [project |-> project, time |-> time, succeeded |-> succeeded, failed |-> failed]

\* a build in the d-th most recent day of the base window, h hours into it
BuildOn(project, d, h, failed) ==
  Build(project, window_end_of(BaseNow) - HOURS_PER_DAY * (d + 1) + h, 1, failed)

Days == [i \in 1..EVERGREEN_LOOKBACK_DAYS |-> i - 1]

\* one build a day with 2 failed tasks, but 50 on one day
HistOutlier == [i \in 1..Len(Days) |-> BuildOn("p1", Days[i], 9, IF Days[i] = 4 THEN 50 ELSE 2)]

\* p1: two builds a day, 2 or 3 failed tasks a day; p2: 3 failed tasks on the
\* seven most recent days; p3 and builds outside the window besides
HistMixed ==
  [i \in 1..Len(Days) |-> BuildOn("p1", Days[i], 0, Days[i] % 2)]
  \o [i \in 1..7 |-> BuildOn("p2", Days[i], 23, 3)]
  \o [i \in 1..Len(Days) |-> BuildOn("p1", Days[i], 23, 2)]
  \o << BuildOn("p3", 2, 5, 40),
        Build("p1", window_end_of(BaseNow), 1, 9),
        Build("p2", window_start_of(BaseNow) - 1, 1, 9),
        Build("p2", BaseNow, 1, 9) >>

\* both projects of the branch red every day
HistRed ==
  [i \in 1..Len(Days) |-> BuildOn("p1", Days[i], 12, 120)]
  \o [i \in 1..Len(Days) |-> BuildOn("p2", Days[i], 12, 60 + Days[i])]

FewHistories == { << >>, HistOutlier, HistMixed, HistRed }

BuildKinds ==
  << Build("p1", window_start_of(BaseNow) - 1, 1, 2),
     Build("p1", window_start_of(BaseNow), 1, 1),
     Build("p2", window_end_of(BaseNow) - 1, 0, 2),
     Build("p1", window_end_of(BaseNow) - 1, 1, 1),
     Build("p2", window_end_of(BaseNow), 1, 1),
     Build("p3", window_end_of(BaseNow) - 1, 1, 1) >>

SmallHistories ==
  UNION { [1..n -> {BuildKinds[k] : k \in 1..Len(BuildKinds)}] : n \in 0..MaxBuilds }

(***************************************************************************)
(* Init: the run has not started.  The inputs vary one group at a time     *)
(* around a base point: the ticket lists, the project configurations with  *)
(* the flag and the clock, the build histories.                            *)
(***************************************************************************)
InitInputs ==
  \/ /\ jira_issues \in SmallBfs \cup BulkBfs
     /\ evg_projects = BaseProjects
     /\ evg_builds = HistOutlier
     /\ notify = FALSE
     /\ utcnow = BaseNow
  \/ /\ jira_issues \in FewBfs
     /\ evg_projects \in AllProjects
     /\ evg_builds \in FewHistories
     /\ notify \in BOOLEAN
     /\ utcnow \in Nows
  \/ /\ jira_issues = << >>
     /\ evg_projects = BaseProjects
     /\ evg_builds \in SmallHistories
     /\ notify = FALSE
     /\ utcnow = BaseNow

Init ==
  /\ repo = DEFAULT_REPO
  /\ branch = DEFAULT_BRANCH
  /\ InitInputs
  /\ pc = "start"
  /\ error = ""
  /\ evg_projects_info = EvgProjectsInfo(<< >>, {})
  /\ evg_project_names = << >>
  /\ bfs_report = BFsReport_empty
  /\ threshold_percentages = << >>
  /\ status_message = << >>
  /\ window_start = 0
  /\ window_end = 0
  /\ day = 0
  /\ task_status_counts = << >>
  /\ waterfall_report = << >>
  /\ logged = << >>
  /\ slack = << >>
  /\ calls = << >>

(***************************************************************************)
(* The steps of evaluate_build_redness.                                    *)
(***************************************************************************)
abort(exception) ==
  /\ pc' = "aborted"
  /\ error' = exception

returned(fn) == calls' = Append(calls, [fn |-> fn, ok |-> TRUE])
raised(fn) == calls' = Append(calls, [fn |-> fn, ok |-> FALSE])

\* lines 73-77: get_evg_project_info raises
get_evg_project_info_raises ==
  /\ pc = "start"
  /\ raised("get_evg_project_info")
  /\ abort("get_evg_project_info")
  /\ status_message' = initial_status_message(repo, branch)
  /\ logged' = Append(logged, LOG("Getting Evergreen projects data"))
  /\ UNCHANGED << args, outside, evg_projects_info, evg_project_names, bfs_report,
                  threshold_percentages, window_start, window_end, day,
                  task_status_counts, waterfall_report, slack >>

\* lines 73-78: it returns a map without the branch, the subscript raises
branch_to_projects_map_raises ==
  /\ pc = "start"
  /\ returned("get_evg_project_info")
  /\ branch \notin DOMAIN evg_projects.branch_to_projects_map
  /\ abort("KeyError")
  /\ status_message' = initial_status_message(repo, branch)
  /\ evg_projects_info' = evg_projects
  /\ logged' = Append(logged, LOG("Getting Evergreen projects data"))
  /\ UNCHANGED << args, outside, evg_project_names, bfs_report,
                  threshold_percentages, window_start, window_end, day,
                  task_status_counts, waterfall_report, slack >>

\* lines 73-81, 131-135: it returns, up to the call of fetch_bfs
get_evg_project_info_returns ==
  /\ pc = "start"
  /\ returned("get_evg_project_info")
  /\ branch \in DOMAIN evg_projects.branch_to_projects_map
  /\ pc' = "fetch_bfs"
  /\ status_message' = initial_status_message(repo, branch)
  /\ evg_projects_info' = evg_projects
  /\ evg_project_names' = evg_projects.branch_to_projects_map[branch]
  /\ logged' = logged \o << LOG("Getting Evergreen projects data"),
                            LOG("Got Evergreen projects data"),
                            [tag |-> "LOG", event |-> "Getting active BFs from Jira",
                             query |-> make_bfs_query(evg_projects)] >>
  /\ UNCHANGED << args, outside, error, bfs_report, threshold_percentages,
                  window_start, window_end, day, task_status_counts,
                  waterfall_report, slack >>

\* line 137: fetch_bfs raises
fetch_bfs_raises ==
  /\ pc = "fetch_bfs"
  /\ raised("fetch_bfs")
  /\ abort("fetch_bfs")
  /\ UNCHANGED << args, outside, locals, logged, slack >>

\* lines 137-144, 82-91, 222-231: fetch_bfs returns, up to the first call of
\* get_waterfall_status
fetch_bfs_returns ==
  /\ pc = "fetch_bfs"
  /\ returned("fetch_bfs")
  /\ LET active_bfs == fetch_bfs(jira_issues, make_bfs_query(evg_projects_info))
         report == _make_bfs_report(active_bfs, evg_projects_info)
         status == _get_bf_counts_status(report)
         w_end == window_end_of(utcnow)
     IN /\ bfs_report' = report
        /\ status_message' = with_section(status_message, status.status_message)
        /\ threshold_percentages' = threshold_percentages \o status.percentages
        /\ window_end' = w_end
        /\ window_start' = w_end - HOURS_PER_DAY * EVERGREEN_LOOKBACK_DAYS
        /\ logged' = logged \o
             << [tag |-> "LOG", event |-> "Got active BFs", count |-> Len(active_bfs)],
                waterfall_query_log(evg_project_names, w_end, 0) >>
  /\ day' = 0
  /\ task_status_counts' = << >>
  /\ pc' = "get_waterfall_status"
  /\ UNCHANGED << args, outside, error, evg_projects_info, evg_project_names,
                  waterfall_report, slack >>

\* variant: the exception caught and the day skipped
get_waterfall_status_raise_swallowed ==
  /\ pc = "get_waterfall_status"
  /\ day + 1 < EVERGREEN_LOOKBACK_DAYS
  /\ raised("get_waterfall_status")
  /\ day' = day + 1
  /\ UNCHANGED << args, outside, pc, error, evg_projects_info, evg_project_names,
                  bfs_report, threshold_percentages, status_message, window_start,
                  window_end, task_status_counts, waterfall_report, logged, slack >>
\* line 232: get_waterfall_status raises
get_waterfall_status_raises ==
  /\ pc = "get_waterfall_status"
  /\ raised("get_waterfall_status")
  /\ abort("get_waterfall_status")
  /\ UNCHANGED << args, outside, locals, logged, slack >>

\* what _accumulate_project_statuses adds for the day whose query returned
tallies_of_day ==
  _accumulate_project_statuses(
    evg_project_names,
    get_waterfall_status(evg_builds, evg_project_names,
                         day_window_start(window_end, day),
                         day_window_end(window_end, day)))

\* lines 232-239, 223-231: a query returns and the loop goes on to the next
get_waterfall_status_returns ==
  /\ pc = "get_waterfall_status"
  /\ returned("get_waterfall_status")
  /\ day + 1 < EVERGREEN_LOOKBACK_DAYS
  /\ task_status_counts' = task_status_counts \o tallies_of_day
  /\ day' = day + 1
  /\ logged' = Append(logged, waterfall_query_log(evg_project_names, window_end, day + 1))
  /\ UNCHANGED << args, outside, pc, error, evg_projects_info, evg_project_names,
                  bfs_report, threshold_percentages, status_message, window_start,
                  window_end, waterfall_report, slack >>

\* lines 232-245, 96-124: the last query returns; the report, the message,
\* the verdict and the logging of the message, up to the call of
\* send_slack_message if there is one
last_get_waterfall_status_returns ==
  /\ pc = "get_waterfall_status"
  /\ returned("get_waterfall_status")
  /\ day + 1 = EVERGREEN_LOOKBACK_DAYS
  /\ LET counts == task_status_counts \o tallies_of_day
         report == group_by_project(evg_project_names, counts)
     IN /\ task_status_counts' = counts
        /\ day' = day + 1
        /\ waterfall_report' = report
        /\ IF first_raising(report) # 0
           THEN /\ abort("StatisticsError")
                /\ logged' = logged \o redness_logs(report)
                /\ UNCHANGED << status_message, threshold_percentages >>
           ELSE LET lines == _get_waterfall_redness_status(report, window_start, window_end)
                    percentages == extend_threshold_percentages(threshold_percentages, lines)
                    message == with_section(with_section(status_message, lines),
                                            << action_line(percentages) >>)
                IN /\ threshold_percentages' = percentages
                   /\ status_message' = message
                   /\ logged' = logged \o redness_logs(report) \o message \o
                        (IF notify
                         THEN << [tag |-> "LOG",
                                  event |-> "Notifying slack channel with results",
                                  slack_channel |-> SLACK_CHANNEL] >>
                         ELSE << >>)
                   /\ pc' = IF notify THEN "send_slack_message" ELSE "done"
                   /\ UNCHANGED error
  /\ UNCHANGED << args, outside, evg_projects_info, evg_project_names, bfs_report,
                  window_start, window_end, slack >>

\* line 125: send_slack_message raises
send_slack_message_raises ==
  /\ pc = "send_slack_message"
  /\ raised("send_slack_message")
  /\ abort("send_slack_message")
  /\ UNCHANGED << args, outside, locals, logged, slack >>

\* lines 125-128: send_slack_message returns and the run ends
send_slack_message_returns ==
  /\ pc = "send_slack_message"
  /\ returned("send_slack_message")
  /\ slack' = Append(slack, [target |-> SLACK_CHANNEL, msg |-> strip(status_message)])
  /\ pc' = "done"
  /\ UNCHANGED << args, outside, error, locals, logged >>

Next ==
  \/ get_evg_project_info_raises
  \/ branch_to_projects_map_raises
  \/ get_evg_project_info_returns
  \/ fetch_bfs_raises
  \/ fetch_bfs_returns
  \/ get_waterfall_status_raises
  \/ get_waterfall_status_returns
  \/ last_get_waterfall_status_returns
  \/ send_slack_message_raises
  \/ send_slack_message_returns

Spec == Init /\ [][Next]_vars

(***************************************************************************)
(* _make_waterfall_report as one function of what Evergreen holds: the     *)
(* tallies of all the days, grouped by project.                            *)
(***************************************************************************)
RECURSIVE tallies_from_day(_, _, _, _)
tallies_from_day(builds, evg_project_names_, window_end_, d) ==
  IF d >= EVERGREEN_LOOKBACK_DAYS THEN << >>
  ELSE _accumulate_project_statuses(
         evg_project_names_,
         get_waterfall_status(builds, evg_project_names_,
                              day_window_start(window_end_, d),
                              day_window_end(window_end_, d)))
       \o tallies_from_day(builds, evg_project_names_, window_end_, d + 1)

_make_waterfall_report(builds, evg_project_names_, window_end_) ==
  group_by_project(evg_project_names_,
                   tallies_from_day(builds, evg_project_names_, window_end_, 0))

(***************************************************************************)
(* What the properties read off a state.                                   *)
(***************************************************************************)
Lines(message, tag) == SelectSeq(message, LAMBDA l : l.tag = tag)

\* the lines of the status message among the log records
StatusLinesLogged == SelectSeq(logged, LAMBDA l : l.tag # "LOG" /\ l.tag # "BLANK")

Failed(fn) == \E i \in 1..Len(calls) : calls[i].fn = fn /\ ~calls[i].ok
Returned(fn) == Cardinality({i \in 1..Len(calls) : calls[i].fn = fn /\ calls[i].ok})

\* the BF counts have been computed
Counted == Len(Lines(status_message, "BF")) = 6
\* the verdict has been computed
Evaluated == Lines(status_message, "ACTION") # << >>
Verdict == Lines(status_message, "ACTION")[1].verdict
BfLine(i) == Lines(status_message, "BF")[i]

Max(S) == IF S = {} THEN 0 ELSE CHOOSE m \in S : \A x \in S : m >= x

\* the category of the threshold table a classified ticket falls in
Category(bf) ==
  IF bf.test_type = PERFORMANCE THEN "Perf"
  ELSE IF bf.temperature = HOT THEN "Hot"
  ELSE "Cold"

\* how many tickets of the report fall in a category, for one team or all
Tickets(cat, team) ==
  Cardinality({i \in 1..Len(bfs_report.bfs) :
                 /\ Category(bfs_report.bfs[i]) = cat
                 /\ team \in {ANY_TEAM, bfs_report.bfs[i].assigned_team}})

\* the threshold table of the design: overall, then per team
ThresholdTable == << 30, 100, 30, 7, 20, 10 >>
CategoryOrder == << "Hot", "Cold", "Perf", "Hot", "Cold", "Perf" >>

(***************************************************************************)
(* C1.  The status message gets exactly one [ACTION] line, its last line:  *)
(* RED if some percentage is above 100, whatever the others are; else      *)
(* GREEN if every percentage is below 50; else YELLOW.  Exactly 100 and    *)
(* exactly 50 with none above 100 therefore give YELLOW.  Before the       *)
(* verdict is computed the message has no [ACTION] line.                   *)
(***************************************************************************)
C1_VerdictRule ==
  LET p == threshold_percentages
      above100 == \E i \in 1..Len(p) : p[i].num > 100 * p[i].den
      allBelow50 == \A i \in 1..Len(p) : p[i].num < 50 * p[i].den
      at100 == \E i \in 1..Len(p) : p[i].num = 100 * p[i].den
      at50 == \E i \in 1..Len(p) : p[i].num = 50 * p[i].den
  IN /\ Len(Lines(status_message, "ACTION")) <= 1
     /\ (day < EVERGREEN_LOOKBACK_DAYS) => ~Evaluated
     /\ (pc \in {"done", "send_slack_message"}) => Evaluated
     /\ Evaluated =>
          /\ status_message[Len(status_message) - 1].tag = "ACTION"
          /\ Verdict \in {RED, YELLOW, GREEN}
          /\ above100 => Verdict = RED
          /\ (~above100 /\ allBelow50) => Verdict = GREEN
          /\ (~above100 /\ ~allBelow50) => Verdict = YELLOW
          /\ (~above100 /\ (at100 \/ at50)) => Verdict = YELLOW

\* a verdict with one percentage at exactly 100 and none above
C1_Witness ==
  /\ Evaluated
  /\ \E i \in 1..Len(threshold_percentages) :
       threshold_percentages[i].num = 100 * threshold_percentages[i].den
  /\ \A i \in 1..Len(threshold_percentages) :
       threshold_percentages[i].num <= 100 * threshold_percentages[i].den
  /\ Verdict = YELLOW

\* further cases of C1 that the runs reach
C1_RedOverGreen ==
  /\ Evaluated
  /\ Verdict = RED
  /\ Cardinality({i \in 1..Len(threshold_percentages) :
                    ~Lt(threshold_percentages[i], 50)}) = 1
C1_Exactly50 ==
  /\ Evaluated
  /\ Verdict = YELLOW
  /\ \A i \in 1..Len(threshold_percentages) :
       threshold_percentages[i].num <= 50 * threshold_percentages[i].den
C1_Green == Evaluated /\ Verdict = GREEN /\ bfs_report.bfs # << >>

(***************************************************************************)
(* C2.  Each of the six percentages is its count divided by its threshold  *)
(* of the table (30/100/30 overall, 7/20/10 per team; all positive) times  *)
(* 100: it is above 100 exactly when the count is above the threshold, and *)
(* it does not decrease when the count grows.  A run that counts 31        *)
(* correctness HOT tickets overall ends with verdict RED.                  *)
(***************************************************************************)
C2_Percentages ==
  LET bf == Lines(status_message, "BF")
  IN /\ \A i \in 1..Len(ThresholdTable) : ThresholdTable[i] > 0
     /\ Len(bf) = 6 =>
          \A i \in 1..6 :
            /\ bf[i].threshold = ThresholdTable[i]
            /\ bf[i].percentage.den > 0
            /\ bf[i].percentage.num * ThresholdTable[i]
                 = 100 * bf[i].bf_count * bf[i].percentage.den
            /\ Gt(bf[i].percentage, 100) <=> bf[i].bf_count > ThresholdTable[i]
            /\ Leq(bf[i].percentage, percentage(bf[i].bf_count + 1, bf[i].threshold))
            /\ bf[i].bf_count > 0 =>
                 Leq(percentage(bf[i].bf_count - 1, bf[i].threshold), bf[i].percentage)
            /\ threshold_percentages[i] = bf[i].percentage
     /\ (Evaluated /\ bf[1].bf_count > ThresholdTable[1]) => Verdict = RED

\* 31 HOT correctness tickets overall and no other count above its threshold
C2_Witness ==
  /\ Evaluated
  /\ BfLine(1).bf_count = 31
  /\ \A i \in 2..6 : BfLine(i).bf_count <= ThresholdTable[i]
  /\ Verdict = RED

(***************************************************************************)
(* C3.  For each category the per-team figure is the largest count of that *)
(* category any one team of all_assigned_teams has, 0 when there is no     *)
(* team; the three maxima are taken separately.                            *)
(***************************************************************************)
C3_MaxPerTeam ==
  Counted =>
    \A i \in 4..6 :
      /\ BfLine(i).scope = "Max per Assigned Team"
      /\ BfLine(i).bf_count =
           Max({Tickets(CategoryOrder[i], team) : team \in bfs_report.all_assigned_teams})
      /\ bfs_report.all_assigned_teams = {} => BfLine(i).bf_count = 0

\* every maximum is below the sum over the teams, and the three are reached
\* by three different teams only
C3_Witness ==
  /\ Counted
  /\ \A i \in 4..6 : 0 < BfLine(i).bf_count /\ BfLine(i).bf_count < BfLine(i - 3).bf_count
  /\ \A i, j \in 4..6 :
       i # j =>
         {t \in bfs_report.all_assigned_teams :
            Tickets(CategoryOrder[i], t) = BfLine(i).bf_count}
         \cap {t \in bfs_report.all_assigned_teams :
                 Tickets(CategoryOrder[j], t) = BfLine(j).bf_count} = {}

C3_NoTeams == Counted /\ bfs_report.all_assigned_teams = {}

(***************************************************************************)
(* C4.  Every ticket of the report adds 1 to exactly one of the three      *)
(* overall counts and, for its team, to the same one of the three per-team *)
(* counts; a CORRECTNESS ticket of temperature NONE adds to Cold and to    *)
(* neither Hot nor Perf.  Stated by taking one ticket out of the report    *)
(* and counting again.                                                     *)
(***************************************************************************)
Without(report, i) ==
  [report EXCEPT !.bfs = SubSeq(report.bfs, 1, i - 1)
                         \o SubSeq(report.bfs, i + 1, Len(report.bfs))]

Unit(cat) == [c \in {"Hot", "Cold", "Perf"} |-> IF c = cat THEN 1 ELSE 0]

OverallCounts(report) ==
  [c \in {"Hot", "Cold", "Perf"} |->
     IF c = "Hot" THEN overall_hot_bf_count(report)
     ELSE IF c = "Cold" THEN overall_cold_bf_count(report)
     ELSE overall_perf_bf_count(report)]

PerTeamCounts(report, team) ==
  [c \in {"Hot", "Cold", "Perf"} |->
     IF c = "Hot" THEN per_team_hot_bf_count(report, team)
     ELSE IF c = "Cold" THEN per_team_cold_bf_count(report, team)
     ELSE per_team_perf_bf_count(report, team)]

C4_OneCategoryPerTicket ==
  Counted =>
    LET bf_lines == Lines(status_message, "BF")
        overall == OverallCounts(bfs_report)
    IN /\ \A i \in 1..3 : bf_lines[i].bf_count = overall[CategoryOrder[i]]
       /\ bf_lines[1].bf_count + bf_lines[2].bf_count + bf_lines[3].bf_count
            = Len(bfs_report.bfs)
       /\ \A i \in 1..Len(bfs_report.bfs) :
            LET bf == bfs_report.bfs[i]
                rest == Without(bfs_report, i)
                cat == IF bf.test_type = CORRECTNESS /\ bf.temperature = NONE
                       THEN "Cold" ELSE Category(bf)
                overall_rest == OverallCounts(rest)
                team == PerTeamCounts(bfs_report, bf.assigned_team)
                team_rest == PerTeamCounts(rest, bf.assigned_team)
            IN \A c \in {"Hot", "Cold", "Perf"} :
                 /\ overall[c] = overall_rest[c] + Unit(cat)[c]
                 /\ team[c] = team_rest[c] + Unit(cat)[c]

\* a counted report that holds a CORRECTNESS ticket of temperature NONE
C4_Witness ==
  /\ Counted
  /\ \E i \in 1..Len(bfs_report.bfs) :
       /\ bfs_report.bfs[i].test_type = CORRECTNESS
       /\ bfs_report.bfs[i].temperature = NONE
  /\ BfLine(2).bf_count > 0

(***************************************************************************)
(* C5.  The verdict is decided by the six BF count percentages alone:      *)
(* whatever builds Evergreen holds instead, the same tickets give the same *)
(* verdict.  The medians are lines of the message, one per project of the  *)
(* branch, and the list the verdict is taken from holds six percentages.   *)
(***************************************************************************)
OtherBuilds == FewHistories

WaterfallLinesOf(builds) ==
  _get_waterfall_redness_status(
    _make_waterfall_report(builds, evg_project_names, window_end),
    window_start, window_end)

C5_VerdictIgnoresWaterfall ==
  Evaluated =>
    /\ Len(threshold_percentages) = 6
    /\ \A i \in 1..6 : threshold_percentages[i] = BfLine(i).percentage
    /\ \A builds \in OtherBuilds :
         verdict_of(extend_threshold_percentages(
                      [i \in 1..6 |-> BfLine(i).percentage],
                      WaterfallLinesOf(builds))) = Verdict
    /\ Len(Lines(status_message, "MEDIAN")) = Len(evg_project_names)
    /\ Lines(status_message, "MEDIAN") = Tail(WaterfallLinesOf(evg_builds))

\* a GREEN verdict next to a median above 100
C5_Witness ==
  /\ Evaluated
  /\ Verdict = GREEN
  /\ \E i \in 1..Len(Lines(status_message, "MEDIAN")) :
       Lines(status_message, "MEDIAN")[i].median > 100

(***************************************************************************)
(* C6.  Once get_evg_project_info, fetch_bfs or a get_waterfall_status     *)
(* call has failed, the run is over, no line of the status message is      *)
(* logged and nothing is sent to Slack.  Lines of the status message are   *)
(* logged, and Slack is called, only after all sixteen calls returned.     *)
(***************************************************************************)
QueryFailed ==
  Failed("get_evg_project_info") \/ Failed("fetch_bfs") \/ Failed("get_waterfall_status")

C6_FailedCallAborts ==
  /\ QueryFailed =>
       /\ pc = "aborted"
       /\ StatusLinesLogged = << >>
       /\ slack = << >>
       /\ Returned("send_slack_message") = 0 /\ ~Failed("send_slack_message")
  /\ (StatusLinesLogged # << >> \/ \E i \in 1..Len(calls) : calls[i].fn = "send_slack_message") =>
       /\ Returned("get_evg_project_info") = 1
       /\ Returned("fetch_bfs") = 1
       /\ Returned("get_waterfall_status") = EVERGREEN_LOOKBACK_DAYS
       /\ ~QueryFailed

\* the eighth waterfall query fails
C6_Witness ==
  /\ Failed("get_waterfall_status")
  /\ Returned("get_waterfall_status") = 7
  /\ pc = "aborted"
  /\ notify

(***************************************************************************)
(* C7 (as claimed).  A failed send_slack_message is logged and the run     *)
(* still ends normally.                                                    *)
(***************************************************************************)
C7_NotifyFailureIsNotFatal ==
  Failed("send_slack_message") =>
    /\ pc = "done"
    /\ error = ""
    /\ logged[Len(logged)].tag = "LOG"
    /\ logged[Len(logged)].event # "Notifying slack channel with results"

\* what does hold: the whole message, verdict line included, was logged
\* before the call
C7_LoggedBeforeDispatch ==
  (\E i \in 1..Len(calls) : calls[i].fn = "send_slack_message") =>
    /\ Evaluated
    /\ \A i \in 1..Len(status_message) :
         \E j \in 1..Len(logged) : logged[j] = status_message[i]

(***************************************************************************)
(* What Evergreen holds for a project inside a window, read off evg_builds *)
(* directly.                                                               *)
(***************************************************************************)
BuildsIn(project, from, to) ==
  {i \in 1..Len(evg_builds) :
     /\ evg_builds[i].project = project
     /\ from <= evg_builds[i].time
     /\ evg_builds[i].time < to}

RECURSIVE SumFailed(_)
SumFailed(I) ==
  IF I = {} THEN 0
  ELSE LET i == CHOOSE x \in I : TRUE IN evg_builds[i].failed + SumFailed(I \ {i})

RECURSIVE SumSucceeded(_)
SumSucceeded(I) ==
  IF I = {} THEN 0
  ELSE LET i == CHOOSE x \in I : TRUE IN evg_builds[i].succeeded + SumSucceeded(I \ {i})

\* all the queries have returned
Queried == Returned("get_waterfall_status") = EVERGREEN_LOOKBACK_DAYS

\* projects of the branch for which no query returned a build
WithoutData ==
  {j \in 1..Len(evg_project_names) :
     BuildsIn(evg_project_names[j], window_start, window_end) = {}}

MedianLine(j) == Lines(status_message, "MEDIAN")[j]

C9_NoProjectsIsFatal ==
  (/\ Returned("get_evg_project_info") = 1
   /\ branch \in DOMAIN evg_projects_info.branch_to_projects_map
   /\ evg_projects_info.branch_to_projects_map[branch] = << >>)
  => pc # "done"

\* the run the claim rules out: no projects, six counts of 0, GREEN
C9_AllZeroGreen ==
  /\ pc = "done"
  /\ evg_project_names = << >>
  /\ \A i \in 1..6 : BfLine(i).bf_count = 0
  /\ Verdict = GREEN

\* a branch that is not in the map at all does end the run
C9_MissingBranchAborts ==
  (/\ Returned("get_evg_project_info") = 1
   /\ branch \notin DOMAIN evg_projects_info.branch_to_projects_map)
  => (pc = "aborted" /\ error = "KeyError")

(***************************************************************************)
(* C10.  The queries are for fourteen one-day windows, the first ending at *)
(* the start of the day before utcnow, each next one ending where the one  *)
(* before starts, so that they cover [window_end - 14 days, window_end)    *)
(* without overlap.  For every window whose query returned and every       *)
(* project of the branch there is one tally: the field-wise sum of the     *)
(* builds Evergreen holds for that project in that window, zeros if none.  *)
(* The report puts each tally in its own project's series, day by day.     *)
(***************************************************************************)
Queries == SelectSeq(logged, LAMBDA l : l.tag = "LOG" /\ l.event = "Getting Evergreen waterfall data")

TallyOf(project, from, to) ==
  [project |-> project,
   succeeded |-> SumSucceeded(BuildsIn(project, from, to)),
   failed |-> SumFailed(BuildsIn(project, from, to))]

C10_WaterfallWindows ==
  LET q == Queries
      n == Len(evg_project_names)
      done == Returned("get_waterfall_status")
  IN /\ Len(q) <= EVERGREEN_LOOKBACK_DAYS
     /\ Len(q) = Len(SelectSeq(calls, LAMBDA c : c.fn = "get_waterfall_status"))
                 + (IF pc = "get_waterfall_status" THEN 1 ELSE 0)
     /\ \A i \in 1..Len(q) :
          /\ q[i].window_end - q[i].window_start = HOURS_PER_DAY
          /\ q[i].window_end = (utcnow \div HOURS_PER_DAY - i) * HOURS_PER_DAY
          /\ q[i].window_end <= utcnow - (utcnow % HOURS_PER_DAY) - HOURS_PER_DAY
          /\ i > 1 => q[i].window_end = q[i - 1].window_start
          /\ q[i].projects = evg_project_names
     /\ Len(task_status_counts) = done * n
     /\ \A d \in 1..done : \A j \in 1..n :
          task_status_counts[(d - 1) * n + j]
            = TallyOf(evg_project_names[j], q[d].window_start, q[d].window_end)
     /\ Queried =>
          /\ Len(q) = EVERGREEN_LOOKBACK_DAYS
          /\ q[1].window_end = window_end
          /\ q[Len(q)].window_start = window_end - EVERGREEN_LOOKBACK_DAYS * HOURS_PER_DAY
          /\ window_start = q[Len(q)].window_start
          /\ Len(waterfall_report) = n
          /\ \A j \in 1..n :
               /\ waterfall_report[j].project = evg_project_names[j]
               /\ Len(waterfall_report[j].daily) = EVERGREEN_LOOKBACK_DAYS
               /\ \A d \in 1..EVERGREEN_LOOKBACK_DAYS :
                    waterfall_report[j].daily[d]
                      = TallyOf(evg_project_names[j], q[d].window_start, q[d].window_end)

\* a window in which one project has two builds and another has one, and
\* builds just outside the fourteen days
C10_Witness ==
  /\ Queried
  /\ Len(evg_project_names) = 2
  /\ \E d \in 1..EVERGREEN_LOOKBACK_DAYS :
       /\ Cardinality(BuildsIn(evg_project_names[1],
                               Queries[d].window_start, Queries[d].window_end)) = 2
       /\ Cardinality(BuildsIn(evg_project_names[2],
                               Queries[d].window_start, Queries[d].window_end)) = 1
       /\ waterfall_report[1].daily[d].failed # waterfall_report[2].daily[d].failed
  /\ \E i \in 1..Len(evg_builds) : evg_builds[i].time = window_end
  /\ \E i \in 1..Len(evg_builds) : evg_builds[i].time = window_start - 1

====
